---------------------------- MODULE Spec2Model ----------------------------
(***************************************************************************)
(* A model of AURtomatic's change-validation and update pipeline:          *)
(*   dir_diff.rs   the ordered tree walk and the directory differ,         *)
(*   pkgcheck.rs   the content validator (normalisation, line diff,        *)
(*                 allow-list, hash check) and apply_changes,              *)
(*   main.rs       BuildService::update_package for one package, and       *)
(*                 BuildService::run with the pipelines of a refresh cycle *)
(*                 as the futures of refresh_packages' stream.             *)
(*                                                                         *)
(* Text is a sequence of one-character strings; a mime type is a sequence  *)
(* of tokens cut where the code's prefix patterns end; a directory tree is *)
(* a set of nodes, each with its path from the root.                       *)
(***************************************************************************)
EXTENDS Naturals, Sequences, FiniteSets

VARIABLES
    folder_left,    \* Check.folder_left: the custom (local git) tree
    folder_right,   \* Check.folder_right: the upstream (AUR) tree
    check_diff_arg, \* the check_diff argument of Check::check_files
    res,            \* the Vec<diff::Result<&str>> handed to Check::check_diff
    op,             \* the function that has been applied ("init" before)
    out,            \* its return value
    pc,             \* update_package: the statement the pipeline is at
    ret,            \* update_package: its return value once it returned
    tmp_exists,     \* update_package: tmp_path exists on disk
    log,            \* update_package: the effects so far, in order
    src_arg,        \* the text handed to Check::parse_src_file
    entries,        \* refresh_packages: the entries read_dir yields, in order
    tasks,          \* refresh_packages: the handle_package future per entry
    ws,             \* the package names whose tmp_path exists on disk
    fe,             \* refresh_packages: the output the for_each closure holds
    proc            \* the process: "running", or "panicked" once it died

\* The refresh cycle's variables, and all of them
cvars == <<entries, tasks, ws, fe, proc>>
vars == <<folder_left, folder_right, check_diff_arg, res, op, out, pc, ret,
          tmp_exists, log, src_arg, cvars>>

-----------------------------------------------------------------------------
(* Sequences and text *)

NoTree == {}
NoValue == [tag |-> "none"]

IsPrefix(p, s) == Len(p) <= Len(s) /\ SubSeq(s, 1, Len(p)) = p

\* str::starts_with
StartsWith(s, p) == IsPrefix(p, s)

\* str::contains for a one-character pattern
Contains(s, c) == \E i \in 1..Len(s) : s[i] = c

\* char::is_whitespace, for the characters of the model's alphabet
IsWhitespace(c) == c \in {" ", "\n", "\t"}

RECURSIVE TrimStart(_)
TrimStart(s) ==
    IF s # <<>> /\ IsWhitespace(Head(s)) THEN TrimStart(Tail(s)) ELSE s

RECURSIVE TrimEnd(_)
TrimEnd(s) ==
    IF s # <<>> /\ IsWhitespace(s[Len(s)])
    THEN TrimEnd(SubSeq(s, 1, Len(s) - 1))
    ELSE s

\* str::trim
Trim(s) == TrimEnd(TrimStart(s))

\* str::replace: every non-overlapping match of pat, left to right
RECURSIVE Replace(_, _, _)
Replace(s, pat, rep) ==
    IF s = <<>> THEN <<>>
    ELSE IF IsPrefix(pat, s)
         THEN rep \o Replace(SubSeq(s, Len(pat) + 1, Len(s)), pat, rep)
         ELSE <<Head(s)>> \o Replace(Tail(s), pat, rep)

RECURSIVE DropSpaces(_)
DropSpaces(s) == IF s # <<>> /\ Head(s) = " " THEN DropSpaces(Tail(s)) ELSE s

\* Regex::new("[ ]+").replace_all(s, " ")
RECURSIVE CollapseSpaces(_)
CollapseSpaces(s) ==
    IF s = <<>> THEN <<>>
    ELSE IF Head(s) = " " THEN <<" ">> \o CollapseSpaces(DropSpaces(s))
    ELSE <<Head(s)>> \o CollapseSpaces(Tail(s))

\* The index of the first c in s, 0 when there is none
RECURSIVE IndexOf(_, _)
IndexOf(s, c) ==
    IF s = <<>> THEN 0
    ELSE IF Head(s) = c THEN 1
    ELSE LET r == IndexOf(Tail(s), c) IN IF r = 0 THEN 0 ELSE r + 1

\* str::lines: split at "\n"; a final empty piece is not a line
RECURSIVE Lines(_)
Lines(s) ==
    IF s = <<>> THEN <<>>
    ELSE LET n == IndexOf(s, "\n")
         IN  IF n = 0 THEN <<s>>
             ELSE <<SubSeq(s, 1, n - 1)>> \o Lines(SubSeq(s, n + 1, Len(s)))

\* s.split("=").nth(0): the text before the first "=", all of s without one
SplitNth0(s) ==
    LET n == IndexOf(s, "=") IN IF n = 0 THEN s ELSE SubSeq(s, 1, n - 1)

-----------------------------------------------------------------------------
(* dir_diff.rs: the tree walk *)

\* The file names of the model, in the byte order OsStr::cmp gives them
FileNames ==
    <<".SRCINFO", ".git", ".gitignore", "PKGBUILD", "blob.bin", "icon.png",
      "src">>

Depth(e) == Len(e.path)
FileName(e) == e.path[Len(e.path)]

\* The nodes of tree t directly under the directory at path dir, sorted by
\* WalkDir::sort_by(compare_by_file_name)
Children(t, dir) ==
    LET at(i) == {n \in t : n.path = dir \o <<FileNames[i]>>}
        RECURSIVE from(_)
        from(i) ==
            IF i > Len(FileNames) THEN <<>>
            ELSE (IF at(i) = {} THEN <<>> ELSE <<CHOOSE n \in at(i) : TRUE>>)
                 \o from(i + 1)
    IN  from(1)

\* walk_dir: the entries WalkDir yields after its first one (the root, which
\* walk_dir consumes): depth first, a directory before its contents
RECURSIVE Descend(_, _)
Descend(t, dir) ==
    LET cs == Children(t, dir)
        RECURSIVE each(_)
        each(i) ==
            IF i > Len(cs) THEN <<>>
            ELSE <<cs[i]>>
                 \o (IF cs[i].file_type = "dir"
                     THEN Descend(t, cs[i].path) ELSE <<>>)
                 \o each(i + 1)
    IN  each(1)

walk_dir(t) == Descend(t, <<>>)

git_filter_entries(f) ==
    ~(   (f.file_type = "dir" /\ FileName(f) = ".git")
      \/ FileName(f) = ".gitignore"
      \/ FileName(f) = ".SRCINFO")

\* IntoIter::filter_entry: an entry the predicate refuses is not yielded and,
\* when it is a directory, not descended into
FilterEntry(walk) ==
    LET kept(e) ==
            /\ git_filter_entries(e)
            /\ \A i \in 1..Len(walk) :
                   (IsPrefix(walk[i].path, e.path) /\ walk[i].path # e.path)
                       => git_filter_entries(walk[i])
    IN  SelectSeq(walk, kept)

FilteredWalk(t) == FilterEntry(walk_dir(t))

-----------------------------------------------------------------------------
(* dir_diff.rs: is_different *)

SiteLeft == [tag |-> "some", site |-> "Left"]
SiteRight == [tag |-> "some", site |-> "Right"]
SiteUnknown == [tag |-> "some", site |-> "Unknown"]

\* One DirEntry against the other, dir_diff.rs lines 43-45
EntriesMismatch(a, b) ==
    \/ Depth(a) # Depth(b)
    \/ a.file_type # b.file_type
    \/ FileName(a) # FileName(b)

\* The for loop over (&mut a_walker).zip(&mut b_walker). Zip::next takes an
\* entry from a_walker first and only then asks b_walker, so the entry of
\* a_walker is consumed also when b_walker has none left. Returns the
\* iterators' positions after the loop: [unknown, a_next, b_next].
RECURSIVE ZipLoop(_, _, _, _)
ZipLoop(wa, wb, i, j) ==
    IF i > Len(wa)
    THEN [unknown |-> FALSE, a_next |-> i, b_next |-> j]
    ELSE IF j > Len(wb)
    THEN [unknown |-> FALSE, a_next |-> i + 1, b_next |-> j]
    ELSE IF EntriesMismatch(wa[i], wb[j])
    THEN [unknown |-> TRUE, a_next |-> i + 1, b_next |-> j + 1]
    ELSE ZipLoop(wa, wb, i + 1, j + 1)

\* is_different with filter_entry(git_filter_entries) left off b_walker
is_different_b_unfiltered(a_base, b_base) ==
    LET a_walker == FilteredWalk(a_base)
        b_walker == walk_dir(b_base)
        z == ZipLoop(a_walker, b_walker, 1, 1)
    IN  IF z.unknown THEN SiteUnknown
        ELSE IF z.a_next <= Len(a_walker) THEN SiteLeft
        ELSE IF z.b_next <= Len(b_walker) THEN SiteRight
        ELSE NoValue

is_different(a_base, b_base) ==
    LET a_walker == FilteredWalk(a_base)
        b_walker == FilteredWalk(b_base)
        z == ZipLoop(a_walker, b_walker, 1, 1)
    IN  IF z.unknown THEN SiteUnknown
        ELSE IF z.a_next <= Len(a_walker) THEN SiteLeft
        ELSE IF z.b_next <= Len(b_walker) THEN SiteRight
        ELSE NoValue

-----------------------------------------------------------------------------
(* pkgcheck.rs: the policy data *)

ALLOWED_CHANGES ==
    {
      <<"l", "i", "c", "e", "n", "s", "e">>,
      <<"p", "k", "g", "v", "e", "r">>,
      <<"p", "k", "g", "r", "e", "l">>,
      <<"p", "k", "g", "d", "e", "s", "c">>,
      <<"a", "r", "c", "h">>,
      <<"s", "h", "a", "2", "5", "6", "s", "u", "m", "s">>,
      <<"s", "h", "a", "5", "1", "2", "s", "u", "m", "s">>,
      <<"m", "d", "5", "s", "u", "m", "s">>,
      <<"o", "p", "t", "d", "e", "p", "e", "n", "d", "s">>,
      <<"v", "a", "l", "i", "d", "p", "g", "p", "k", "e", "y", "s">>,
      <<"c", "o", "n", "f", "l", "i", "c", "t", "s">>,
      <<"s", "h", "a", "2", "5", "6", "s", "u", "m", "s", "_", "a", "r", "m", "v", "7", "h">>,
      <<"s", "h", "a", "2", "5", "6", "s", "u", "m", "s", "_", "a", "a", "r", "c", "h", "6", "4">>,
      <<"s", "h", "a", "2", "5", "6", "s", "u", "m", "s", "_", "x", "8", "6", "_", "6", "4">>,
      <<"d", "e", "p", "e", "n", "d", "s">>,
      <<"_", "p", "k", "g", "n", "a", "m", "e">>
    }

ALLOWED_MIMES == { <<"image/">> }

UTF8_MIMES ==
    { <<"text/">>,
      <<"application/x-shellscript">>,
      <<"application/x-desktop">>,
      <<"application/mbox">>,
      <<"application/xml">>,
      <<"application/json">> }

partial_contains(v, has) ==
    \E i \in v : i = has \/ StartsWith(has, i)

-----------------------------------------------------------------------------
(* pkgcheck.rs: normalisation of a textual file *)

unwrap_multi_line(a, sub) ==
    CollapseSpaces(Replace(Trim(a), sub, <<"'", " ">>))

\* The for loop of parse_src_file over src.lines(), from line k on
RECURSIVE ParseLinesFrom(_, _)
ParseLinesFrom(ls, k) ==
    IF k > Len(ls) THEN <<>>
    ELSE LET i == ls[k]
         IN  IF Trim(i) = <<>> \/ StartsWith(Trim(i), <<"#">>)
             THEN ParseLinesFrom(ls, k + 1)
             ELSE Replace(Trim(i), <<";">>, <<";", "\n">>) \o <<"\n">>
                  \o ParseLinesFrom(ls, k + 1)

parse_src_file(src) ==
    ParseLinesFrom(Lines(unwrap_multi_line(src, <<"'", "\n">>)), 1)

-----------------------------------------------------------------------------
(* The diff crate's diff::lines, as pkgcheck.rs line 104 uses it: the      *)
(* longest-common-subsequence table over the two texts' lines, walked back *)
(* from its last cell, a line of the right text taken first on a tie.      *)

DiffLeft(l) == [tag |-> "Left", text |-> l]
DiffRight(r) == [tag |-> "Right", text |-> r]
DiffBoth(l) == [tag |-> "Both", text |-> l]

Max(a, b) == IF a >= b THEN a ELSE b

diff_lines(left, right) ==
    LET ls == Lines(left)
        rs == Lines(right)
        table[i \in 0..Len(ls), j \in 0..Len(rs)] ==
            IF i = 0 \/ j = 0 THEN 0
            ELSE IF ls[i] = rs[j] THEN table[i - 1, j - 1] + 1
            ELSE Max(table[i - 1, j], table[i, j - 1])
        RECURSIVE back(_, _)
        back(i, j) ==
            IF j > 0 /\ (i = 0 \/ table[i, j] = table[i, j - 1])
            THEN back(i, j - 1) \o <<DiffRight(rs[j])>>
            ELSE IF i > 0 /\ (j = 0 \/ table[i, j] = table[i - 1, j])
            THEN back(i - 1, j) \o <<DiffLeft(ls[i])>>
            ELSE IF i > 0 /\ j > 0
            THEN back(i - 1, j - 1) \o <<DiffBoth(ls[i])>>
            ELSE <<>>
    IN  back(Len(ls), Len(rs))

-----------------------------------------------------------------------------
(* pkgcheck.rs: the checks on one diff and one file pair *)

is_diff_empty(d) == \A i \in 1..Len(d) : d[i].tag # "Right"

\* The for loop of Check::check_diff from element k on, with its returns
RECURSIVE CheckDiffFrom(_, _)
CheckDiffFrom(d, k) ==
    IF k > Len(d) THEN TRUE
    ELSE IF d[k].tag = "Right"
    THEN LET r == d[k].text
             s == SplitNth0(r)
         IN  IF ~Contains(r, "=") THEN FALSE
             ELSE IF s \notin ALLOWED_CHANGES /\ ~StartsWith(s, <<"_">>)
             THEN FALSE
             ELSE CheckDiffFrom(d, k + 1)
    ELSE CheckDiffFrom(d, k + 1)

\* check_diff without the "if let diff::Result::Right": every element of the
\* diff is held to the policy
check_diff_every_line(d) ==
    \A k \in 1..Len(d) :
        /\ Contains(d[k].text, "=")
        /\ \/ SplitNth0(d[k].text) \in ALLOWED_CHANGES
           \/ StartsWith(SplitNth0(d[k].text), <<"_">>)

check_diff(d) == CheckDiffFrom(d, 1)

\* tree_magic::from_u8 on the file's bytes: the first signature that matches
\* decides, text is what remains
get_mime(f) ==
    IF StartsWith(f.data, <<"<89>PNG">>) THEN <<"image/", "png">>
    ELSE IF StartsWith(f.data, <<"<7f>ELF">>)
    THEN <<"application/x-executable">>
    ELSE <<"text/", "plain">>

\* format!("{:x}", md5::compute(buffer)): equal exactly for equal bytes
get_file_md5(f) == <<"md5">> \o f.data

hash_file_diff(a, b) == get_file_md5(a) = get_file_md5(b)

Ok(v) == [tag |-> "Ok", val |-> v]
Err(e) == [tag |-> "Err", err |-> e]

\* fs::read_to_string: an error when the bytes are not valid UTF-8
read_to_string(f) ==
    IF \E i \in 1..Len(f.data) : f.data[i] \in {"<89>PNG", "<ff>"}
    THEN Err("InvalidData")
    ELSE Ok(f.data)

Min(a, b) == IF a <= b THEN a ELSE b

\* The for loop of Check::check_files over the zipped walks from pair k on,
\* with its returns; had_diff is the loop's flag
RECURSIVE CheckFilesFrom(_, _, _, _, _)
CheckFilesFrom(wa, wb, k, had_diff, cd) ==
    IF k > Min(Len(wa), Len(wb))
    THEN IF ~had_diff THEN Ok(FALSE) ELSE Ok(TRUE)
    ELSE LET a == wa[k]
             b == wb[k]
             mime == get_mime(b)
         IN  IF a.file_type = "dir" \/ b.file_type = "dir"
             THEN CheckFilesFrom(wa, wb, k + 1, had_diff, cd)
             ELSE IF partial_contains(UTF8_MIMES, mime)
             THEN IF read_to_string(a).tag = "Err" THEN read_to_string(a)
                  ELSE IF read_to_string(b).tag = "Err"
                  THEN read_to_string(b)
                  ELSE LET a_content == parse_src_file(read_to_string(a).val)
                           b_content == parse_src_file(read_to_string(b).val)
                           diff == diff_lines(a_content, b_content)
                       IN  IF cd /\ ~check_diff(diff) THEN Ok(FALSE)
                           ELSE CheckFilesFrom(wa, wb, k + 1,
                                    had_diff \/ ~is_diff_empty(diff), cd)
             ELSE LET has_diff == hash_file_diff(a, b)
                  IN  IF cd /\ ~partial_contains(ALLOWED_MIMES, mime)
                         /\ has_diff
                      THEN Ok(FALSE)
                      ELSE CheckFilesFrom(wa, wb, k + 1,
                               had_diff \/ has_diff, cd)

check_files(left, right, cd) ==
    CheckFilesFrom(FilteredWalk(left), FilteredWalk(right), 1, FALSE, cd)

\* are_dirs_different with the comparison turned round: true for every
\* difference but a Right one
are_dirs_different_not_right(left, right) ==
    IF is_different(left, right).tag = "some"
    THEN is_different(left, right).site # "Right"
    ELSE FALSE

\* Check::are_dirs_different on two trees that can be walked. An I/O error of
\* a walk makes the unwrap of is_different's Result panic: that way out is
\* in the actions that call this operator (CheckDirs, UpdateSync).
are_dirs_different(left, right) ==
    IF is_different(left, right).tag = "some"
    THEN is_different(left, right).site = "Right"
    ELSE FALSE

\* The for loop of Check::apply_changes over the zipped walks from pair k on.
\* fs::copy(b, a) fails unless b is a regular file and a can be opened for
\* writing; the ? returns its error with the earlier copies done.
\* Returns [tree, copied, result]: the custom tree, the (from, to) paths
\* copied, and the Result.
RECURSIVE ApplyFrom(_, _, _, _, _)
ApplyFrom(t, wa, wb, k, copied) ==
    IF k > Min(Len(wa), Len(wb))
    THEN [tree |-> t, copied |-> copied, result |-> Ok("unit")]
    ELSE LET a == wa[k]
             b == wb[k]
         IN  IF a.file_type = "dir" \/ b.file_type = "dir"
             THEN [tree |-> t, copied |-> copied, result |-> Err("io")]
             ELSE ApplyFrom((t \ {a}) \cup {[a EXCEPT !.data = b.data]},
                            wa, wb, k + 1,
                            Append(copied, <<b.path, a.path>>))

apply_changes(left, right) ==
    ApplyFrom(left, FilteredWalk(left), FilteredWalk(right), 1, <<>>)

-----------------------------------------------------------------------------
(* The bounded inputs *)

MaxNodes == 3       \* nodes of a tree the differ is applied to
MaxSrcLines == 2    \* physical lines of an upstream textual file
MaxDiffLen == 2     \* elements of a diff handed to check_diff

LinePkgver1 == <<"p", "k", "g", "v", "e", "r", "=", "1", ".", "0">>
LinePkgver2 == <<"p", "k", "g", "v", "e", "r", "=", "2", ".", "0">>
LineCustom == <<"_", "c", "u", "s", "t", "o", "m", "=", "1">>
LineEcho == <<"e", "c", "h", "o", " ", "p", "w", "n", "e", "d">>
LineQuoted == <<"p", "k", "g", "d", "e", "s", "c", "=", "'", "x", "'">>
LineComment == <<"#", " ", "n", "o", "t", "e">>
LineSource == <<"s", "o", "u", "r", "c", "e", "=", "x">>
LineIndented == <<" ", "p", "k", "g", "r", "e", "l", "=", "1">>

\* The file whose physical lines are ls, each ended by a line feed
RECURSIVE TextOf(_)
TextOf(ls) ==
    IF ls = <<>> THEN <<>> ELSE Head(ls) \o <<"\n">> \o TextOf(Tail(ls))

SeqsUpTo(S, n) == UNION {[1..k -> S] : k \in 0..n}

File(path, data) == [path |-> path, file_type |-> "file", data |-> data]
Dir(path) == [path |-> path, file_type |-> "dir", data |-> <<>>]

\* Trees for the differ: the nodes a package repository may hold
DiffNodes ==
    { Dir(<<".git">>), File(<<".git">>, <<>>),
      File(<<".SRCINFO">>, LinePkgver1),
      File(<<"PKGBUILD">>, TextOf(<<LinePkgver1>>)),
      File(<<"blob.bin">>, <<"<7f>ELF", "1">>),
      File(<<"icon.png">>, <<"<89>PNG", "1">>),
      Dir(<<"src">>), File(<<"src">>, <<>>),
      File(<<"src", "PKGBUILD">>, TextOf(<<LinePkgver1>>)) }

\* A set of nodes is a tree when no path occurs twice and every node below
\* the top level lies in a directory of the set
IsTree(t) ==
    /\ \A m, n \in t : m.path = n.path => m = n
    /\ \A n \in t :
           Len(n.path) > 1 =>
               Dir(SubSeq(n.path, 1, Len(n.path) - 1)) \in t

DiffTrees ==
    {t \in SUBSET DiffNodes : Cardinality(t) <= MaxNodes /\ IsTree(t)}

\* Trees for the validator: a PKGBUILD, and optionally an image and a binary
SrcLines ==
    {LinePkgver1, LinePkgver2, LineCustom, LineEcho, LineQuoted, LineComment,
     LineSource}

LocalTexts == {TextOf(<<LinePkgver1>>), TextOf(<<LinePkgver1, LineEcho>>)}
RemoteTexts == {TextOf(ls) : ls \in SeqsUpTo(SrcLines, MaxSrcLines)}

CheckTree(text, icon, blob) ==
    {File(<<"PKGBUILD">>, text)}
    \cup (IF icon = "" THEN {} ELSE {File(<<"icon.png">>, <<"<89>PNG", icon>>)})
    \cup (IF blob = "" THEN {} ELSE {File(<<"blob.bin">>, <<"<7f>ELF", blob>>)})

LocalCheckTrees ==
    {CheckTree(t, i, b) : t \in LocalTexts, i \in {"", "1"}, b \in {"", "1"}}
RemoteCheckTrees ==
    {CheckTree(t, i, b) :
        t \in RemoteTexts, i \in {"", "1", "2"}, b \in {"", "1", "2"}}

\* Diffs for check_diff
PolicyLines ==
    {LinePkgver2, LineCustom, LineEcho, LineSource, LineIndented,
     <<"=", "1">>, <<"_", "=">>}
DiffItems ==
    {[tag |-> t, text |-> l] : t \in {"Left", "Right", "Both"}, l \in PolicyLines}
Diffs == SeqsUpTo(DiffItems, MaxDiffLen)

-----------------------------------------------------------------------------
(* The functions applied to bounded inputs *)

\* The for_each closure holds no output
NoOutput == [ret |-> NoValue, ran |-> <<>>]

\* No refresh cycle is running
NoCycle ==
    /\ entries = <<>> /\ tasks = <<>> /\ ws = {}
    /\ fe = NoOutput /\ proc = "running"

Idle ==
    /\ pc = "idle" /\ ret = NoValue /\ tmp_exists = FALSE /\ log = <<>>
    /\ NoCycle

\* is_different on every pair of trees
InitDiff ==
    /\ folder_left \in DiffTrees
    /\ folder_right \in DiffTrees
    /\ check_diff_arg = FALSE /\ res = <<>>
    /\ op = "init" /\ out = NoValue
    /\ Idle
    /\ src_arg = <<>>

CallIsDifferent ==
    /\ op = "init"
    /\ op' = "is_different"
    /\ out' = is_different(folder_left, folder_right)
    /\ UNCHANGED <<folder_left, folder_right, check_diff_arg, res, pc, ret,
                   tmp_exists, log>>
    /\ UNCHANGED <<src_arg, cvars>>

SpecDiff == InitDiff /\ [][CallIsDifferent]_vars

\* Check::check_diff on every diff
InitPolicy ==
    /\ folder_left = NoTree /\ folder_right = NoTree
    /\ check_diff_arg = TRUE
    /\ res \in Diffs
    /\ op = "init" /\ out = NoValue
    /\ Idle
    /\ src_arg = <<>>

CallCheckDiff ==
    /\ op = "init"
    /\ op' = "check_diff"
    /\ out' = check_diff(res)
    /\ UNCHANGED <<folder_left, folder_right, check_diff_arg, res, pc, ret,
                   tmp_exists, log>>
    /\ UNCHANGED <<src_arg, cvars>>

SpecPolicy == InitPolicy /\ [][CallCheckDiff]_vars

\* Check::check_files on every pair of a custom and an upstream tree
InitCheck ==
    /\ folder_left \in LocalCheckTrees
    /\ folder_right \in RemoteCheckTrees
    /\ check_diff_arg \in BOOLEAN
    /\ res = <<>>
    /\ op = "init" /\ out = NoValue
    /\ Idle
    /\ src_arg = <<>>

CallCheckFiles ==
    /\ op = "init"
    /\ op' = "check_files"
    /\ out' = check_files(folder_left, folder_right, check_diff_arg)
    /\ UNCHANGED <<folder_left, folder_right, check_diff_arg, res, pc, ret,
                   tmp_exists, log>>
    /\ UNCHANGED <<src_arg, cvars>>

SpecCheck == InitCheck /\ [][CallCheckFiles]_vars

\* Check::check_files on an upstream PKGBUILD whose one line joins two
\* statements with a ';'
LinePkgrel == <<"p", "k", "g", "r", "e", "l", "=", "1">>

Statements ==
    {LinePkgver2, LinePkgrel, LineCustom, LineSource, LineEcho, LineQuoted}
Separators == {<<";">>, <<";", " ">>}

Joined(a, sep, b) == CheckTree(TextOf(<<a \o sep \o b>>), "", "")

InitJoin ==
    /\ folder_left = CheckTree(TextOf(<<LinePkgver1>>), "", "")
    /\ folder_right \in
           {Joined(a, sep, b) : a, b \in Statements, sep \in Separators}
    /\ check_diff_arg = TRUE
    /\ res = <<>>
    /\ op = "init" /\ out = NoValue
    /\ Idle
    /\ src_arg = <<>>

SpecJoin == InitJoin /\ [][CallCheckFiles]_vars

\* Check::parse_src_file on every short text, and again on its own output
MaxSrcChars == 4    \* characters of a text handed to parse_src_file

SrcChars == {"a", ";", " ", "'", "#", "\n"}
SrcTexts == SeqsUpTo(SrcChars, MaxSrcChars)

InitParse ==
    /\ folder_left = NoTree /\ folder_right = NoTree
    /\ check_diff_arg = FALSE /\ res = <<>>
    /\ op = "init" /\ out = NoValue
    /\ Idle
    /\ src_arg \in SrcTexts

CallParseSrcFile ==
    /\ op = "init"
    /\ op' = "parse_src_file"
    /\ out' = parse_src_file(src_arg)
    /\ UNCHANGED <<folder_left, folder_right, check_diff_arg, res, pc, ret,
                   tmp_exists, log, src_arg, cvars>>

CallParseSrcFileAgain ==
    /\ op = "parse_src_file"
    /\ op' = "parse_src_file(parse_src_file)"
    /\ src_arg' = out
    /\ out' = parse_src_file(out)
    /\ UNCHANGED <<folder_left, folder_right, check_diff_arg, res, pc, ret,
                   tmp_exists, log, cvars>>

NextParse == CallParseSrcFile \/ CallParseSrcFileAgain

SpecParse == InitParse /\ [][NextParse]_vars

-----------------------------------------------------------------------------
(* main.rs: BuildService::update_package for one package *)

MaxPolls == 2       \* polls of a job that is not yet in a stopped state

Ev(name, arg) == [ev |-> name, arg |-> arg]
Did(name) == \E i \in 1..Len(log) : log[i].ev = name
SiteName(o) == IF o.tag = "some" THEN o.site ELSE "None"
Count(name) == Cardinality({i \in 1..Len(log) : log[i].ev = name})

\* The tree pairs the two clones may produce
ClonePairs ==
    (DiffTrees \X DiffTrees) \cup (LocalCheckTrees \X RemoteCheckTrees)

InitPipe ==
    /\ folder_left = NoTree /\ folder_right = NoTree
    /\ check_diff_arg = TRUE
    /\ res = <<>>
    /\ op = "update_package" /\ out = NoValue
    /\ pc = "start" /\ ret = NoValue
    /\ tmp_exists \in BOOLEAN
    /\ log = <<>>
    /\ src_arg = <<>>
    /\ NoCycle

Return(r) == pc' = "done" /\ ret' = r

\* Lines 137-147: the existence check and the three create_dir. The first
\* create_dir makes tmp_path; when a later one fails, tmp_path stays.
Start ==
    /\ pc = "start"
    /\ IF tmp_exists
       THEN Return(Ok("unit")) /\ UNCHANGED <<tmp_exists, log>>
       ELSE \/ /\ tmp_exists' = TRUE
               /\ log' = Append(log, Ev("create_dir", <<"Ok">>))
               /\ pc' = "clone" /\ UNCHANGED ret
            \/ /\ tmp_exists' \in BOOLEAN
               /\ log' = Append(log, Ev("create_dir", <<"Err">>))
               /\ Return(Err("io"))
    /\ UNCHANGED <<folder_left, folder_right, check_diff_arg, res, op, out>>
    /\ UNCHANGED <<src_arg, cvars>>

\* Lines 149-170: the clone of the upstream and of the custom repository
Clone ==
    /\ pc = "clone"
    /\ \/ \E p \in ClonePairs :
              /\ folder_left' = p[1]
              /\ folder_right' = p[2]
              /\ log' = Append(log, Ev("clone", <<"Ok">>))
              /\ pc' = "dirs" /\ UNCHANGED ret
       \/ /\ log' = Append(log, Ev("clone", <<"Err">>))
          /\ Return(Err("git")) /\ UNCHANGED <<folder_left, folder_right>>
    /\ UNCHANGED <<check_diff_arg, res, op, out, tmp_exists>>
    /\ UNCHANGED <<src_arg, cvars>>

\* Lines 172-178. are_dirs_different unwraps the differ's result: an I/O
\* error of a walk is a panic.
CheckDirs ==
    /\ pc = "dirs"
    /\ \/ /\ log' = Append(log, Ev("are_dirs_different",
                                    <<SiteName(is_different(folder_left,
                                                            folder_right))>>))
          /\ IF are_dirs_different(folder_left, folder_right)
             THEN Return(Err("DifferentDirs"))
             ELSE pc' = "check" /\ UNCHANGED ret
       \/ /\ log' = Append(log, Ev("are_dirs_different", <<"Err">>))
          /\ pc' = "panic" /\ UNCHANGED ret
    /\ UNCHANGED <<folder_left, folder_right, check_diff_arg, res, op, out,
                   tmp_exists>>
    /\ UNCHANGED <<src_arg, cvars>>

\* What update_package reads from check_files' result
Verdict(r) ==
    IF r.tag = "Err" THEN "Err" ELSE IF r.val THEN "Accepted" ELSE "Rejected"

\* The validator's call without the early return on Ok(false)
CheckFiles_ignores_rejection ==
    /\ pc = "check"
    /\ LET r == check_files(folder_left, folder_right, check_diff_arg)
       IN  /\ log' = Append(log, Ev("check_files", <<Verdict(r)>>))
           /\ IF r.tag = "Err" THEN Return(r)
              ELSE pc' = "apply" /\ UNCHANGED ret
    /\ UNCHANGED <<folder_left, folder_right, check_diff_arg, res, op, out,
                   tmp_exists>>
    /\ UNCHANGED <<src_arg, cvars>>

\* Lines 180-184: the validator, called with its checks on
CheckFiles ==
    /\ pc = "check"
    /\ LET r == check_files(folder_left, folder_right, check_diff_arg)
       IN  /\ log' = Append(log, Ev("check_files", <<Verdict(r)>>))
           /\ IF r.tag = "Err" THEN Return(r)
              ELSE IF ~r.val THEN Return(Ok("unit"))
              ELSE pc' = "apply" /\ UNCHANGED ret
    /\ UNCHANGED <<folder_left, folder_right, check_diff_arg, res, op, out,
                   tmp_exists>>
    /\ UNCHANGED <<src_arg, cvars>>

\* Line 186
Apply ==
    /\ pc = "apply"
    /\ LET r == apply_changes(folder_left, folder_right)
       IN  /\ folder_left' = r.tree
           /\ log' = Append(log, Ev("apply_changes",
                                    <<r.result.tag, r.copied>>))
           /\ IF r.result.tag = "Err" THEN Return(r.result)
              ELSE pc' = "srcinfo" /\ UNCHANGED ret
    /\ UNCHANGED <<folder_right, check_diff_arg, res, op, out, tmp_exists>>
    /\ UNCHANGED <<src_arg, cvars>>

\* Line 187: makepkg --printsrcinfo > .SRCINFO in the custom tree. The exit
\* status is not looked at; only a failure to spawn the shell is an error.
UpdateSrcinfo ==
    /\ pc = "srcinfo"
    /\ \/ /\ folder_left' =
                 {n \in folder_left : n.path # <<".SRCINFO">>}
                 \cup {File(<<".SRCINFO">>, LinePkgver2)}
          /\ log' = Append(log, Ev("update_custom_srcinfo", <<"Ok">>))
          /\ pc' = "submit" /\ UNCHANGED ret
       \/ /\ log' = Append(log, Ev("update_custom_srcinfo", <<"Err">>))
          /\ Return(Err("io")) /\ UNCHANGED folder_left
    /\ UNCHANGED <<folder_right, check_diff_arg, res, op, out, tmp_exists>>
    /\ UNCHANGED <<src_arg, cvars>>

\* create_job with its error logged and not returned
Submit_ignores_error ==
    /\ pc = "submit"
    /\ \/ \E o \in {"Ok", "Err"} :
              /\ log' = Append(log, Ev("create_job", <<o>>))
              /\ pc' = "wait" /\ UNCHANGED ret
       \/ /\ log' = Append(log, Ev("create_job", <<"NoResponse">>))
          /\ pc' = "panic" /\ UNCHANGED ret
    /\ UNCHANGED <<folder_left, folder_right, check_diff_arg, res, op, out,
                   tmp_exists>>
    /\ UNCHANGED <<src_arg, cvars>>

\* Lines 189-207: create_job; the job's response is unwrapped, so a result
\* without a response is a panic
Submit ==
    /\ pc = "submit"
    /\ \/ /\ log' = Append(log, Ev("create_job", <<"Ok">>))
          /\ pc' = "wait" /\ UNCHANGED ret
       \/ /\ log' = Append(log, Ev("create_job", <<"Err">>))
          /\ Return(Err("AurJobError"))
       \/ /\ log' = Append(log, Ev("create_job", <<"NoResponse">>))
          /\ pc' = "panic" /\ UNCHANGED ret
    /\ UNCHANGED <<folder_left, folder_right, check_diff_arg, res, op, out,
                   tmp_exists>>
    /\ UNCHANGED <<src_arg, cvars>>

\* lib_remotebuild_rs: jobs::Status and Status::is_stopped_state
JobStatuses == {"Pending", "Running", "Succeeded", "Failed", "Cancelled"}
is_stopped_state(st) == st \in {"Succeeded", "Failed", "Cancelled"}

\* The match without its Cancelled arm
WaitResult_failed_only(st) ==
    IF st = "Failed" THEN Err("JobFailed") ELSE Ok("unit")

\* Lines 322-331: the match on the status the loop broke with
WaitResult(st) ==
    IF st \in {"Failed", "Cancelled"} THEN Err("JobFailed") ELSE Ok("unit")

\* Lines 309-332 and 208-212: one turn of wait_for_build_job's loop; when the
\* loop ends, the function's result and what update_package does with it
Poll ==
    /\ pc = "wait"
    /\ \/ /\ log' = log \o <<Ev("job_info", <<"Err">>),
                             Ev("wait_for_build_job", <<"JobInfoError">>)>>
          /\ Return(Err("JobInfoError"))
       \/ /\ log' = Append(log, Ev("job_info", <<"NoResponse">>))
          /\ pc' = "panic" /\ UNCHANGED ret
       \/ \E st \in JobStatuses :
              IF is_stopped_state(st)
              THEN LET r == WaitResult(st)
                   IN  /\ log' = log \o
                              <<Ev("job_info", <<st>>),
                                Ev("wait_for_build_job",
                                   <<IF r.tag = "Ok" THEN "Ok" ELSE r.err>>)>>
                       /\ IF r.tag = "Err" THEN Return(r)
                          ELSE pc' = "push" /\ UNCHANGED ret
              ELSE /\ Count("job_info") < MaxPolls
                   /\ log' = Append(log, Ev("job_info", <<st>>))
                   /\ UNCHANGED <<pc, ret>>
    /\ UNCHANGED <<folder_left, folder_right, check_diff_arg, res, op, out,
                   tmp_exists>>
    /\ UNCHANGED <<src_arg, cvars>>

\* The push with tmp_path removed when it fails
Push_cleans_up ==
    /\ pc = "push"
    /\ \/ /\ log' = Append(log, Ev("push", <<"Ok">>))
          /\ pc' = "notify" /\ UNCHANGED <<ret, tmp_exists>>
       \/ /\ log' = Append(log, Ev("push", <<"Err">>))
          /\ tmp_exists' = FALSE
          /\ Return(Err("git"))
    /\ UNCHANGED <<folder_left, folder_right, check_diff_arg, res, op, out>>
    /\ UNCHANGED <<src_arg, cvars>>

\* Lines 214-215: apply_custom_repo_changes, the commit and the push
Push ==
    /\ pc = "push"
    /\ \/ /\ log' = Append(log, Ev("push", <<"Ok">>))
          /\ pc' = "notify" /\ UNCHANGED ret
       \/ /\ log' = Append(log, Ev("push", <<"Err">>))
          /\ Return(Err("git"))
    /\ UNCHANGED <<folder_left, folder_right, check_diff_arg, res, op, out,
                   tmp_exists>>
    /\ UNCHANGED <<src_arg, cvars>>

\* Lines 217-226: the success message, whose error the ? returns
Notify ==
    /\ pc = "notify"
    /\ \/ /\ log' = Append(log, Ev("send_message", <<"Ok">>))
          /\ pc' = "remove" /\ UNCHANGED ret
       \/ /\ log' = Append(log, Ev("send_message", <<"Err">>))
          /\ Return(Err("telegram"))
    /\ UNCHANGED <<folder_left, folder_right, check_diff_arg, res, op, out,
                   tmp_exists>>
    /\ UNCHANGED <<src_arg, cvars>>

\* Lines 234-237
Remove ==
    /\ pc = "remove"
    /\ \/ /\ tmp_exists' = FALSE
          /\ folder_left' = NoTree /\ folder_right' = NoTree
          /\ log' = Append(log, Ev("remove_dir_all", <<"Ok">>))
          /\ Return(Ok("unit"))
       \/ /\ log' = Append(log, Ev("remove_dir_all", <<"Err">>))
          /\ Return(Err("io"))
          /\ UNCHANGED <<tmp_exists, folder_left, folder_right>>
    /\ UNCHANGED <<check_diff_arg, res, op, out>>
    /\ UNCHANGED <<src_arg, cvars>>

NextPipe ==
    \/ Start \/ Clone \/ CheckDirs \/ CheckFiles \/ Apply \/ UpdateSrcinfo
    \/ Submit \/ Poll \/ Push \/ Notify \/ Remove

SpecPipe == InitPipe /\ [][NextPipe]_vars

-----------------------------------------------------------------------------
(* main.rs: BuildService::run and refresh_packages, the pipelines of a      *)
(* refresh cycle as the futures of one buffer_unordered stream. The futures *)
(* are polled by one task: a step of the model is what one future does      *)
(* between two of its awaits, or what the for_each closure does with one    *)
(* output. A future is "queued" before the stream made it, "started" once   *)
(* it is in the buffer, "gone" once its output was yielded, and otherwise   *)
(* at the await its pc names.                                               *)

buffer_unordered == 10      \* the argument of buffer_unordered
NumEntries == 2             \* entries of repo_dir in a cycle with updates
PoolEntries == 11           \* entries of repo_dir in a cycle without updates

Packages == {"a", "b"}

\* An entry of repo_dir: the pkg_name of the archive and what the AUR holds
\* for it ("none", a version that is "same", or one that is "newer")
Entry(name, remote) == [name |-> name, remote |-> remote]

Task(at, ran) == [pc |-> at, ran |-> ran]
Output(r, ran) == [ret |-> r, ran |-> ran]

\* The futures in the buffer
InFlight == {i \in DOMAIN tasks : tasks[i].pc \notin {"queued", "gone"}}

\* The awaits of update_package: a future at one of them has passed the
\* existence check and made tmp_path
Owning == {"srcinfo", "create_job", "job_info", "sleep", "notify"}

\* The tree pairs the two clones produce in a cycle: one per way the
\* synchronous stages can end
CyclePairs ==
    { <<CheckTree(TextOf(<<LinePkgver1>>), "", ""),
        CheckTree(TextOf(<<LinePkgver2>>), "", "")>>,
      <<CheckTree(TextOf(<<LinePkgver1>>), "", ""),
        CheckTree(TextOf(<<LineEcho>>), "", "")>>,
      <<CheckTree(TextOf(<<LinePkgver1>>), "", ""),
        CheckTree(TextOf(<<LinePkgver1>>), "1", "")>>,
      <<{File(<<"icon.png">>, <<"<89>PNG", "1">>)}, {File(<<"src">>, <<>>)}>>,
      <<CheckTree(TextOf(<<LinePkgver1>>), "", "") \cup {Dir(<<"src">>)},
        CheckTree(TextOf(<<LinePkgver2>>), "", "") \cup {Dir(<<"src">>)}>> }

\* A way a step of a future can end: at the await `at`, "gone" with the
\* output r, or in a "panic"; w is the set of tmp_paths afterwards
Way(at, r, ran, w) == [to |-> at, ret |-> r, ran |-> ran, ws |-> w]

\* update_package lines 172-187 on the cloned pair p: are_dirs_different,
\* check_files, apply_changes, up to the await of update_custom_srcinfo
AfterClone(p, ran, w) ==
    LET ran1 == Append(ran, "are_dirs_different")
        ran2 == Append(ran1, "check_files")
        ran3 == Append(ran2, "apply_changes")
        r == check_files(p[1], p[2], TRUE)
        a == apply_changes(p[1], p[2])
    IN  IF are_dirs_different(p[1], p[2])
        THEN Way("gone", Err("DifferentDirs"), ran1, w)
        ELSE IF r.tag = "Err" THEN Way("gone", r, ran2, w)
        ELSE IF ~r.val THEN Way("gone", Ok("unit"), ran2, w)
        ELSE IF a.result.tag = "Err" THEN Way("gone", a.result, ran3, w)
        ELSE Way("srcinfo", NoValue, ran3, w)

\* update_package without its existence check
UpdateSync_no_check(name) ==
    LET w == ws \cup {name}
    IN  {Way("gone", Err("git"), <<"create_dir", "clone">>, w),
         Way("panic", NoValue, <<"create_dir", "clone">>, w)}
        \cup {AfterClone(p, <<"create_dir", "clone">>, w) : p \in CyclePairs}

\* update_package lines 125-187 for the package name, from its start to its
\* first await: the ways it can go
UpdateSync(name) ==
    IF name \in ws
    THEN {Way("gone", Ok("unit"), <<"exists">>, ws)}
    ELSE LET w == ws \cup {name}
             ran == <<"exists", "create_dir">>
             ran1 == Append(ran, "clone")
         IN  {Way("gone", Err("io"), ran, ws), Way("gone", Err("io"), ran, w),
              Way("gone", Err("git"), ran1, w),
              Way("panic", NoValue, ran1, w)}
             \cup {AfterClone(p, ran1, w) : p \in CyclePairs}

\* A future goes the way o
Go(i, o) ==
    /\ ws' = o.ws
    /\ IF o.to = "panic"
       THEN /\ tasks' = [tasks EXCEPT ![i] = Task("panic", o.ran)]
            /\ proc' = "panicked" /\ UNCHANGED fe
       ELSE IF o.to = "gone"
       THEN /\ tasks' = [tasks EXCEPT ![i] = Task("gone", <<>>)]
            /\ fe' = Output(o.ret, o.ran)
            /\ UNCHANGED proc
       ELSE /\ tasks' = [tasks EXCEPT ![i] = Task(o.to, o.ran)]
            /\ UNCHANGED <<fe, proc>>
    /\ UNCHANGED <<entries, folder_left, folder_right, check_diff_arg, res, op,
                   out, pc, ret, tmp_exists, log, src_arg>>

\* The stream is polled: the process lives and the closure holds no output
Polled == proc = "running" /\ fe = NoOutput

\* A cycle with updates: every archive has a newer version in the AUR
InitCycle ==
    /\ entries \in [1..NumEntries -> {Entry(n, "newer") : n \in Packages}]
    /\ tasks = [i \in 1..NumEntries |-> Task("queued", <<>>)]
    /\ ws = {} /\ fe = NoOutput /\ proc = "running"
    /\ folder_left = NoTree /\ folder_right = NoTree
    /\ check_diff_arg = TRUE /\ res = <<>>
    /\ op = "run" /\ out = NoValue
    /\ pc = "idle" /\ ret = NoValue /\ tmp_exists = FALSE /\ log = <<>>
    /\ src_arg = <<>>

\* A cycle without updates: no archive has a newer version in the AUR
InitPool ==
    /\ entries = [i \in 1..PoolEntries |-> Entry("a", "same")]
    /\ tasks = [i \in 1..PoolEntries |-> Task("queued", <<>>)]
    /\ ws = {} /\ fe = NoOutput /\ proc = "running"
    /\ folder_left = NoTree /\ folder_right = NoTree
    /\ check_diff_arg = TRUE /\ res = <<>>
    /\ op = "run" /\ out = NoValue
    /\ pc = "idle" /\ ret = NoValue /\ tmp_exists = FALSE /\ log = <<>>
    /\ src_arg = <<>>

\* buffer_unordered with no limit on the futures it holds
PullEntry_unbounded ==
    /\ Polled
    /\ \E i \in DOMAIN tasks :
           /\ tasks[i].pc = "queued"
           /\ \A j \in 1..(i - 1) : tasks[j].pc # "queued"
           /\ tasks' = [tasks EXCEPT ![i] = Task("started", <<>>)]
    /\ UNCHANGED <<entries, ws, fe, proc, folder_left, folder_right,
                   check_diff_arg, res, op, out, pc, ret, tmp_exists, log,
                   src_arg>>

\* Lines 56-58: buffer_unordered takes the next future of the stream while it
\* holds fewer than its limit
PullEntry ==
    /\ Polled
    /\ Cardinality(InFlight) < buffer_unordered
    /\ \E i \in DOMAIN tasks :
           /\ tasks[i].pc = "queued"
           /\ \A j \in 1..(i - 1) : tasks[j].pc # "queued"
           /\ tasks' = [tasks EXCEPT ![i] = Task("started", <<>>)]
    /\ UNCHANGED <<entries, ws, fe, proc, folder_left, folder_right,
                   check_diff_arg, res, op, out, pc, ret, tmp_exists, log,
                   src_arg>>

\* Lines 72-97: handle_package up to the await of aur::info; an entry that is
\* no archive, has no pkginfo or is on the ignore list is skipped
HandlePackage ==
    /\ Polled
    /\ \E i \in DOMAIN tasks :
           /\ tasks[i].pc = "started"
           /\ \/ Go(i, Way("gone", Ok("unit"), <<>>, ws))
              \/ Go(i, Way("lookup", NoValue, <<>>, ws))

\* Lines 97-122: aur::info returns; then the version test and update_package
\* up to its first await
LookupReturns ==
    /\ Polled
    /\ \E i \in DOMAIN tasks :
           /\ tasks[i].pc = "lookup"
           /\ \/ Go(i, Way("gone", Err("aur"), <<>>, ws))
              \/ /\ entries[i].remote # "newer"
                 /\ Go(i, Way("gone", Ok("unit"), <<>>, ws))
              \/ /\ entries[i].remote = "newer"
                 /\ \E o \in UpdateSync(entries[i].name) : Go(i, o)

\* Lines 187-198: update_custom_srcinfo returns; then up to the await of
\* create_job
SrcinfoReturns ==
    /\ Polled
    /\ \E i \in DOMAIN tasks :
           /\ tasks[i].pc = "srcinfo"
           /\ LET ran == Append(tasks[i].ran, "update_custom_srcinfo")
              IN  \/ Go(i, Way("gone", Err("io"), ran, ws))
                  \/ Go(i, Way("create_job", NoValue, ran, ws))

\* Lines 198-208 and 313-315: create_job returns; then up to the first await
\* of job_info
CreateJobReturns ==
    /\ Polled
    /\ \E i \in DOMAIN tasks :
           /\ tasks[i].pc = "create_job"
           /\ LET ran == Append(tasks[i].ran, "create_job")
              IN  \/ Go(i, Way("gone", Err("AurJobError"), ran, ws))
                  \/ Go(i, Way("panic", NoValue, ran, ws))
                  \/ Go(i, Way("job_info", NoValue, ran, ws))

\* job_info returns, with tmp_path removed right after the push
JobInfoReturns_removes_early ==
    /\ Polled
    /\ \E i \in DOMAIN tasks :
           /\ tasks[i].pc = "job_info"
           /\ LET ran == tasks[i].ran
                  pushed == Append(ran, "push")
              IN  \/ Go(i, Way("gone", Err("JobInfoError"), ran, ws))
                  \/ Go(i, Way("panic", NoValue, ran, ws))
                  \/ \E st \in JobStatuses :
                         IF ~is_stopped_state(st)
                         THEN Go(i, Way("sleep", NoValue, ran, ws))
                         ELSE IF WaitResult(st).tag = "Err"
                         THEN Go(i, Way("gone", WaitResult(st), ran, ws))
                         ELSE \/ Go(i, Way("gone", Err("git"), pushed, ws))
                              \/ Go(i, Way("notify", NoValue, pushed,
                                           ws \ {entries[i].name}))

\* Lines 315-331 and 208-218: job_info returns; the loop sleeps, or ends and
\* update_package goes on to the push and the await of the success message
JobInfoReturns ==
    /\ Polled
    /\ \E i \in DOMAIN tasks :
           /\ tasks[i].pc = "job_info"
           /\ LET ran == tasks[i].ran
                  pushed == Append(ran, "push")
              IN  \/ Go(i, Way("gone", Err("JobInfoError"), ran, ws))
                  \/ Go(i, Way("panic", NoValue, ran, ws))
                  \/ \E st \in JobStatuses :
                         IF ~is_stopped_state(st)
                         THEN Go(i, Way("sleep", NoValue, ran, ws))
                         ELSE IF WaitResult(st).tag = "Err"
                         THEN Go(i, Way("gone", WaitResult(st), ran, ws))
                         ELSE \/ Go(i, Way("gone", Err("git"), pushed, ws))
                              \/ Go(i, Way("notify", NoValue, pushed, ws))

\* Line 320: the sleep of a minute ends
SleepReturns ==
    /\ Polled
    /\ \E i \in DOMAIN tasks :
           /\ tasks[i].pc = "sleep"
           /\ Go(i, Way("job_info", NoValue, tasks[i].ran, ws))

\* Lines 218-237: the success message returns; then remove_dir_all
NotifyReturns ==
    /\ Polled
    /\ \E i \in DOMAIN tasks :
           /\ tasks[i].pc = "notify"
           /\ LET ran == Append(tasks[i].ran, "send_message")
                  removed == Append(ran, "remove_dir_all")
              IN  \/ Go(i, Way("gone", Err("telegram"), ran, ws))
                  \/ Go(i, Way("gone", Err("io"), removed, ws))
                  \/ Go(i, Way("gone", Ok("unit"), removed,
                               ws \ {entries[i].name}))

\* Lines 59-67: the for_each closure on an output; an Err is sent to the
\* notifier, whose result is unwrapped
ForEach ==
    /\ proc = "running" /\ fe # NoOutput
    /\ \/ fe' = NoOutput /\ UNCHANGED proc
       \/ /\ fe.ret.tag = "Err"
          /\ proc' = "panicked" /\ UNCHANGED fe
    /\ UNCHANGED <<entries, tasks, ws, folder_left, folder_right,
                   check_diff_arg, res, op, out, pc, ret, tmp_exists, log,
                   src_arg>>

\* Lines 47-50: refresh_packages returns when the stream has ended; after the
\* sleep the next cycle reads repo_dir again
NextCycle ==
    /\ Polled
    /\ \A i \in DOMAIN tasks : tasks[i].pc = "gone"
    /\ tasks' = [i \in DOMAIN tasks |-> Task("queued", <<>>)]
    /\ UNCHANGED <<entries, ws, fe, proc, folder_left, folder_right,
                   check_diff_arg, res, op, out, pc, ret, tmp_exists, log,
                   src_arg>>

NextCycles ==
    \/ PullEntry \/ HandlePackage \/ LookupReturns \/ SrcinfoReturns
    \/ CreateJobReturns \/ JobInfoReturns \/ SleepReturns \/ NotifyReturns
    \/ ForEach \/ NextCycle

SpecCycle == InitCycle /\ [][NextCycles]_vars

\* The poll of future i's job that ends the wait
WaitEnds(i) ==
    /\ JobInfoReturns
    /\ tasks[i].pc = "job_info"
    /\ tasks'[i].pc \notin {"job_info", "sleep"}

\* The scheduling of a cycle when every call returns: the one task that
\* runs refresh_packages goes on while a step is possible (buffer_unordered
\* polls the futures whose call has returned, for_each runs its closure,
\* run's sleep ends), and every submitted job comes to a stopped status or
\* to a poll that fails
FairCycle ==
    /\ WF_vars(NextCycles)
    /\ \A i \in 1..NumEntries : SF_vars(WaitEnds(i))

SpecCycleFair == InitCycle /\ [][NextCycles]_vars /\ FairCycle

\* Without updates no future gets into update_package
NextPool ==
    \/ PullEntry \/ HandlePackage \/ LookupReturns \/ ForEach \/ NextCycle

SpecPool == InitPool /\ [][NextPool]_vars

-----------------------------------------------------------------------------
(* Properties of update_package's structural stage *)

\* What is_different returned to are_dirs_different in this run
DifferSaid(site) ==
    \E i \in 1..Len(log) :
        log[i].ev = "are_dirs_different" /\ log[i].arg = <<site>>

\* C1: when the differ result is Left or Unknown, update_package returns
\* Error::DifferentDirs before the validator runs, and nothing is copied,
\* submitted or pushed.
C1_LeftOrUnknownAborts ==
    (DifferSaid("Left") \/ DifferSaid("Unknown")) =>
        /\ pc \in {"check", "done"}
        /\ pc = "done" => ret = Err("DifferentDirs")
        /\ ~Did("check_files") /\ ~Did("apply_changes")
        /\ ~Did("create_job") /\ ~Did("push")

-----------------------------------------------------------------------------
(* Properties of Check::check_diff *)

\* The line holds an "=" and the text before its first "=" is an
\* ALLOWED_CHANGES name or starts with "_"
IsAllowedAssignment(line) ==
    \E n \in 1..Len(line) :
        /\ line[n] = "="
        /\ \A m \in 1..(n - 1) : line[m] # "="
        /\ \/ SubSeq(line, 1, n - 1) \in ALLOWED_CHANGES
           \/ n > 1 /\ line[1] = "_"

\* C3: check_diff returns true exactly when every Added (Right) line is an
\* allowed assignment, whatever the Removed and Unchanged lines are; an added
\* pkgver=2.0 and an added _custom=1 are accepted, an added echo pwned is
\* rejected.
C3_CheckDiffPolicy ==
    op = "check_diff" =>
        /\ out <=> \A k \in 1..Len(res) :
                       res[k].tag = "Right" => IsAllowedAssignment(res[k].text)
        /\ res = <<DiffRight(LinePkgver2)>> => out
        /\ res = <<DiffRight(LineCustom)>> => out
        /\ res = <<DiffRight(LineEcho)>> => ~out

C3_Witness ==
    /\ op = "check_diff"
    /\ res = <<DiffLeft(LineEcho), DiffRight(LineCustom)>>
    /\ out = TRUE

-----------------------------------------------------------------------------
(* Properties of Check::check_files *)

Pkgbuild(t) == CHOOSE n \in t : n.path = <<"PKGBUILD">>
PhysicalLines(f) == {Lines(f.data)[i] : i \in 1..Len(Lines(f.data))}

\* A physical line that is neither blank nor a comment and holds no "="
IsCommandLine(l) ==
    /\ Trim(l) # <<>>
    /\ ~StartsWith(Trim(l), <<"#">>)
    /\ ~Contains(l, "=")

IsTextual(f) == partial_contains(UTF8_MIMES, get_mime(f))
IsExempt(f) == partial_contains(ALLOWED_MIMES, get_mime(f))

\* The two trees hold the same paths, so that the zipped walks pair every
\* file with the file of its own path
SamePaths == {n.path : n \in folder_left} = {n.path : n \in folder_right}

\* The same-path file pairs whose upstream side is textual / is not
TextualPairs ==
    {p \in folder_left \X folder_right :
        p[1].path = p[2].path /\ IsTextual(p[2])}
OtherPairs ==
    {p \in folder_left \X folder_right :
        p[1].path = p[2].path /\ ~IsTextual(p[2])}

\* The lines the normalised diff of a textual pair marks Added
AddedLines(p) ==
    LET d == diff_lines(parse_src_file(p[1].data), parse_src_file(p[2].data))
    IN  {d[i].text : i \in {j \in 1..Len(d) : d[j].tag = "Right"}}

\* C4: when the upstream PKGBUILD holds a physical line without "=" (a
\* command) that the custom PKGBUILD does not hold, check_files with its
\* checks on rejects the package, whatever the neighbouring lines are.
C4_InjectedCommandRejected ==
    (/\ op = "check_files" /\ check_diff_arg
     /\ \E l \in PhysicalLines(Pkgbuild(folder_right)) :
            IsCommandLine(l) /\ l \notin PhysicalLines(Pkgbuild(folder_left)))
        => out = Ok(FALSE)

\* C5: when a file that is neither textual nor exempt differs between the
\* custom and the upstream tree, check_files with its checks on returns
\* false.
C5_OpaqueChangeRejected ==
    (/\ op = "check_files" /\ check_diff_arg /\ SamePaths
     /\ \E p \in OtherPairs : ~IsExempt(p[2]) /\ p[1].data # p[2].data)
        => out = Ok(FALSE)

\* C6: when no file pair produces an Added line (as when the two trees are
\* identical), check_files returns false (stated for the call with the checks
\* on, the one update_package makes).
C6_NoAddedLineRejected ==
    (/\ op = "check_files" /\ check_diff_arg /\ SamePaths
     /\ \A p \in TextualPairs : AddedLines(p) = {})
        => out = Ok(FALSE)

\* C7: when every Added line of the textual files assigns an allow-listed or
\* underscore-prefixed variable, at least one line is Added and every other
\* file is byte-identical on both sides, check_files with its checks on
\* returns true.
C7_AllowedChangeAccepted ==
    (/\ op = "check_files" /\ check_diff_arg /\ SamePaths
     /\ \A p \in TextualPairs : \A l \in AddedLines(p) : IsAllowedAssignment(l)
     /\ \E p \in TextualPairs : AddedLines(p) # {}
     /\ \A p \in OtherPairs : p[1].data = p[2].data)
        => out = Ok(TRUE)

-----------------------------------------------------------------------------
(* Properties of is_different *)

\* The filtered walks agree entry for entry
SameWalk(a, b) ==
    /\ Len(FilteredWalk(a)) = Len(FilteredWalk(b))
    /\ \A i \in 1..Len(FilteredWalk(a)) :
           /\ Len(FilteredWalk(a)[i].path) = Len(FilteredWalk(b)[i].path)
           /\ FilteredWalk(a)[i].file_type = FilteredWalk(b)[i].file_type
           /\ FilteredWalk(a)[i].path[Len(FilteredWalk(a)[i].path)]
                  = FilteredWalk(b)[i].path[Len(FilteredWalk(b)[i].path)]

\* The regular files of tree t that its filtered walk visits
WalkedFiles(t) ==
    {n \in t : n.file_type = "file"
               /\ \E i \in 1..Len(FilteredWalk(t)) : FilteredWalk(t)[i] = n}

\* C8: when the left tree holds exactly one file the right tree lacks and
\* all else is identical, is_different returns Some(Left), wherever the file
\* falls in the walk.
C8_ExtraFileIsLeft ==
    (/\ op = "is_different"
     /\ WalkedFiles(folder_right) # {}
     /\ \E f \in WalkedFiles(folder_left) : folder_right = folder_left \ {f})
        => out = SiteLeft

\* C9: is_different returns None only when the two filtered walks are
\* identical entry for entry; walks of different lengths never give None.
C9_NoneOnlySameWalk ==
    (op = "is_different" /\ out = NoValue /\ WalkedFiles(folder_right) # {})
        => SameWalk(folder_left, folder_right)

\* C10: is_different(A, A) returns None for every tree A.
C10_Reflexive ==
    (op = "is_different" /\ folder_left = folder_right) => out = NoValue

C10_Witness ==
    /\ op = "is_different"
    /\ folder_left = folder_right
    /\ Dir(<<".git">>) \in folder_left
    /\ Dir(<<"src">>) \in folder_left
    /\ File(<<"src", "PKGBUILD">>, TextOf(<<LinePkgver1>>)) \in folder_left
    /\ out = NoValue

\* The filtered walk of a is a strict prefix of the filtered walk of b
WalkPrefix(a, b) ==
    /\ Len(FilteredWalk(a)) < Len(FilteredWalk(b))
    /\ \A i \in 1..Len(FilteredWalk(a)) :
           ~EntriesMismatch(FilteredWalk(a)[i], FilteredWalk(b)[i])

\* C22: the differ is symmetric in its sides: when one filtered walk is a
\* strict prefix of the other, is_different names the longer side, whether
\* one entry is left over or more; so is_different(A, B) is Some(Left)
\* exactly when is_different(B, A) is Some(Right).
C22_SideSymmetry ==
    (/\ op = "is_different"
     /\ FilteredWalk(folder_left) # <<>>
     /\ FilteredWalk(folder_right) # <<>>) =>
        /\ WalkPrefix(folder_right, folder_left) => out = SiteLeft
        /\ WalkPrefix(folder_left, folder_right) => out = SiteRight
        /\ out = SiteLeft
               <=> is_different(folder_right, folder_left) = SiteRight

-----------------------------------------------------------------------------
(* Properties of the normalisation *)

\* C11: normalisation is idempotent: parse_src_file applied to its own output
\* returns that output unchanged, for every text, those with ';' included.
C11_Idempotent ==
    op = "parse_src_file(parse_src_file)" => out = src_arg

\* C24: the output of parse_src_file holds no blank line and no full-line
\* comment: none of its lines is empty or starts with '#' once trimmed, for
\* every text, those with a ';' at a line's end or before a comment included.
C24_NoBlankNoComment ==
    op = "parse_src_file" =>
        \A k \in 1..Len(Lines(out)) :
            /\ Trim(Lines(out)[k]) # <<>>
            /\ ~StartsWith(Trim(Lines(out)[k]), <<"#">>)

\* What check_files says when the upstream PKGBUILD is the one line x
AddedAlone(x) ==
    check_files(folder_left, CheckTree(TextOf(<<x>>), "", ""), TRUE)

\* C25: statements joined by ';' on one line are judged independently: for
\* an added upstream line "A; B" check_files accepts exactly when it accepts
\* A as the added line and accepts B as the added line (so "pkgver=2.0;
\* pkgrel=1" is accepted and "pkgver=2.0; echo pwned" is rejected).
C25_JoinedJudgedAlone ==
    op = "check_files" =>
        \A a, b \in Statements :
            folder_right = Joined(a, <<";", " ">>, b) =>
                out = Ok(AddedAlone(a).val /\ AddedAlone(b).val)

-----------------------------------------------------------------------------
(* Properties of the build wait *)

\* The positions of the log where job_info returned, and where
\* wait_for_build_job returned
PollIdx == {i \in 1..Len(log) : log[i].ev = "job_info"}
WaitIdx == {i \in 1..Len(log) : log[i].ev = "wait_for_build_job"}

\* What the polls of this run returned, in order
PollSeq ==
    LET p == SelectSeq(log, LAMBDA e : e.ev = "job_info")
    IN  [i \in 1..Len(p) |-> p[i].arg[1]]

\* C12: wait_for_build_job polls until the first poll that returns an error
\* or a terminal status and never polls again; it returns Ok exactly when
\* that poll said Succeeded, JobFailed exactly when it said Failed or
\* Cancelled, and JobInfoError exactly when the poll itself failed. So the
\* polls Pending, Running, Succeeded give Ok after two non-terminal polls and
\* the polls Running, Failed give JobFailed.
C12_WaitForBuildJob ==
    /\ \A i \in PollIdx :
           (\E j \in PollIdx : j > i) => log[i].arg[1] \in {"Pending", "Running"}
    /\ pc = "wait" => WaitIdx = {}
    /\ (PollIdx # {} /\ pc \notin {"wait", "panic"}) => WaitIdx # {}
    /\ \A w \in WaitIdx :
           /\ w > 1 /\ log[w - 1].ev = "job_info"
           /\ \A i \in PollIdx : i < w
           /\ LET last == log[w - 1].arg[1]
              IN  /\ log[w].arg = <<"Ok">> <=> last = "Succeeded"
                  /\ log[w].arg = <<"JobFailed">>
                         <=> last \in {"Failed", "Cancelled"}
                  /\ log[w].arg = <<"JobInfoError">> <=> last = "Err"
    /\ PollSeq = <<"Pending", "Running", "Succeeded">> =>
           \E w \in WaitIdx : log[w].arg = <<"Ok">>
    /\ PollSeq = <<"Running", "Failed">> =>
           \E w \in WaitIdx : log[w].arg = <<"JobFailed">>

C12_Witness ==
    /\ PollSeq = <<"Pending", "Running", "Succeeded">>
    /\ \E w \in WaitIdx : log[w].arg = <<"Ok">>
    /\ pc = "push"

-----------------------------------------------------------------------------
(* Properties of update_package's later stages *)

\* The call name returned outcome somewhere before position i of the log
Before(i, name, outcome) ==
    \E j \in 1..(i - 1) : log[j].ev = name /\ log[j].arg[1] = outcome

\* C13: the stages are gated in order: apply_changes runs only after
\* check_files accepted, create_job only after apply_changes returned Ok,
\* the push only after wait_for_build_job returned Ok; after a rejection
\* nothing is applied, submitted or pushed.
C13_StageOrder ==
    \A i \in 1..Len(log) :
        /\ log[i].ev = "apply_changes" => Before(i, "check_files", "Accepted")
        /\ log[i].ev = "create_job" => Before(i, "apply_changes", "Ok")
        /\ log[i].ev = "push" => Before(i, "wait_for_build_job", "Ok")
        /\ (log[i].ev = "check_files" /\ log[i].arg = <<"Rejected">>) =>
               /\ i = Len(log)
               /\ pc = "done" /\ ret = Ok("unit")

C13_Witness ==
    /\ \E i \in 1..Len(log) : log[i].ev = "push" /\ log[i].arg = <<"Ok">>
    /\ Before(Len(log), "check_files", "Accepted")
    /\ Before(Len(log), "apply_changes", "Ok")
    /\ Before(Len(log), "wait_for_build_job", "Ok")

\* C14: when create_job fails (AurJobError), a poll fails (JobInfoError) or
\* the job ends Failed or Cancelled (JobFailed), update_package returns that
\* error at once: nothing is committed or pushed and no success message is
\* sent.
C14_BuildFailureAborts ==
    /\ \A i \in 1..Len(log) :
           (log[i].ev = "create_job" /\ log[i].arg = <<"Err">>) =>
               /\ i = Len(log)
               /\ pc = "done" /\ ret = Err("AurJobError")
    /\ \A w \in WaitIdx :
           log[w].arg # <<"Ok">> =>
               /\ w = Len(log)
               /\ pc = "done" /\ ret = Err(log[w].arg[1])
    /\ (pc = "done" /\ ret \in {Err("AurJobError"), Err("JobInfoError"),
                                Err("JobFailed")}) =>
           ~Did("push") /\ ~Did("send_message") /\ ~Did("remove_dir_all")

C14_Witness ==
    /\ pc = "done" /\ ret = Err("JobFailed")
    /\ PollSeq = <<"Running", "Cancelled">>
    /\ ~Did("push")

\* The run went through every stage and removed tmp_path at its end
FullSuccess ==
    /\ pc = "done" /\ ret = Ok("unit")
    /\ log # <<>> /\ log[Len(log)] = Ev("remove_dir_all", <<"Ok">>)
    /\ Before(Len(log), "check_files", "Accepted")
    /\ Before(Len(log), "apply_changes", "Ok")
    /\ Before(Len(log), "wait_for_build_job", "Ok")
    /\ Before(Len(log), "push", "Ok")
    /\ Before(Len(log), "send_message", "Ok")

\* update_package made tmp_path in this run
Created == \E i \in 1..Len(log) : log[i] = Ev("create_dir", <<"Ok">>)

\* C15: tmp_path is deleted only on full success: once update_package made
\* it, it exists at every other ending (clone failure, DifferentDirs,
\* rejection, apply failure, AurJobError, JobInfoError, JobFailed, push
\* failure, and any other return or panic).
C15_WorkspaceKept ==
    (Created /\ ~FullSuccess) => tmp_exists

C15_Witness ==
    /\ Created /\ tmp_exists
    /\ pc = "done" /\ ret = Err("git")
    /\ log[Len(log)] = Ev("push", <<"Err">>)

\* C16: a failure of the notifier aborts nothing: when the success message
\* after a successful build and push cannot be sent, update_package still
\* removes tmp_path and returns Ok.
C16_NotifierFailureHarmless ==
    (pc = "done" /\ Before(Len(log) + 1, "send_message", "Err")) =>
        ret = Ok("unit") /\ ~tmp_exists

-----------------------------------------------------------------------------
(* Properties of the refresh cycle *)

\* C17: whatever way one package's pipeline fails (lookup error, clone
\* failure, I/O error of a walk in the differ, DifferentDirs, AurJobError,
\* missing job response, JobInfoError, JobFailed, push failure), the other
\* pipelines go on and the process does not terminate: while the closure
\* holds no output to report, the process is running.
C17_FailureIsolation ==
    fe = NoOutput => proc = "running"

\* The futures that have passed the existence check for the package name
Owners(name) ==
    {i \in DOMAIN tasks : tasks[i].pc \in Owning /\ entries[i].name = name}

\* C18: the existence of tmp_path is a lock: a pipeline that finds it
\* returns Ok without cloning, validating, applying, submitting or pushing
\* and leaves it as it is; so a tmp_path left behind by an attempt is never
\* taken by a pipeline of a later cycle.
C18_ExistenceLock ==
    [][/\ \A i \in DOMAIN tasks :
              (/\ tasks[i].pc = "lookup"
               /\ entries[i].name \in ws
               /\ tasks'[i].pc # "lookup") =>
                  /\ tasks'[i].pc = "gone"
                  /\ fe' \in {Output(Ok("unit"), <<"exists">>),
                              Output(Err("aur"), <<>>)}
                  /\ ws' = ws /\ proc' = "running"
       /\ \A n \in ws :
              Owners(n) = {} => (n \in ws' /\ Owners(n)' = {})]_vars

C18_Witness ==
    /\ fe = Output(Ok("unit"), <<"exists">>)
    /\ entries[1].name # entries[2].name
    /\ \A i \in DOMAIN tasks : tasks[i].pc \notin Owning
    /\ ws = {entries[1].name}
    /\ tasks[1].pc = "gone"

\* C19: for every package name at most one pipeline in flight has passed the
\* existence check, and that one holds the tmp_path; also when two archives
\* of a cycle have the same pkg_name and the pipelines interleave at every
\* await.
C19_OneOwner ==
    \A n \in Packages :
        /\ Cardinality(Owners(n)) <= 1
        /\ Owners(n) # {} => n \in ws

C19_Witness ==
    /\ entries[1].name = entries[2].name
    /\ tasks[2].pc = "job_info"
    /\ tasks[1].pc = "gone"
    /\ fe = Output(Ok("unit"), <<"exists">>)

\* C20: in every state of a refresh cycle at most ten pipelines are in
\* flight.
C20_AtMostTen ==
    Cardinality(InFlight) <= buffer_unordered

C20_Witness ==
    /\ Cardinality(InFlight) = buffer_unordered
    /\ \E i \in DOMAIN tasks : tasks[i].pc = "queued"
    /\ \E i \in DOMAIN tasks : tasks[i].pc = "lookup"

-----------------------------------------------------------------------------
(* Properties of the pairing of the two walks *)

\* C23: in every run that reaches apply_changes, every pair that is copied
\* is a pair of regular files with the same relative path: no local file is
\* overwritten with the content of a remote file of another name, and no
\* copy of a directory is attempted (the only way the copy loop of the model
\* fails).
C23_SamePathPairs ==
    \A i \in 1..Len(log) :
        log[i].ev = "apply_changes" =>
            /\ \A k \in 1..Len(log[i].arg[2]) :
                   log[i].arg[2][k][1] = log[i].arg[2][k][2]
            /\ log[i].arg[1] = "Ok"

-----------------------------------------------------------------------------
(* Progress of the refresh cycle *)

\* C21: when every call returns and every job comes to a stopped status or
\* a failing poll, every pipeline that was started ends, the refresh cycle
\* completes, and a new cycle is started, again and again.  A behaviour
\* that ends in proc = "panicked" stops for good: the unwraps of
\* main.rs:62-65, 206, 317 and pkgcheck.rs:72-78 end the process, no bound
\* of the model is involved.
C21_Progress ==
    /\ \A i \in 1..NumEntries :
           (tasks[i].pc \notin {"queued", "gone"}) ~> (tasks[i].pc = "gone")
    /\ []<>(fe = NoOutput /\ \A i \in 1..NumEntries : tasks[i].pc = "gone")
    /\ []<>(\A i \in 1..NumEntries : tasks[i].pc = "queued")

=============================================================================
